---------------------------- MODULE Spec2Model ----------------------------
(***************************************************************************)
(* A model of the JRC clear-cut analysis scripts:                          *)
(*   Harvest_Biomass_Stats.py   (zonal sampler + per-feature loop + CSV)   *)
(*   calculate_shape_metrics.py (per-feature shape metrics + CSV)          *)
(*   harvest_prob_extract.py    (masked per-pixel extraction + CSV)        *)
(*                                                                         *)
(* Coordinates are integers.  Every grid of the model has an even pixel    *)
(* size that divides its extent, so (extent / width) and (col + 0.5) * px  *)
(* are exact in integer arithmetic.  Raster values are naturals; NaN is a  *)
(* separate value for which every comparison is false, as in IEEE 754.     *)
(***************************************************************************)
EXTENDS Integers, Sequences, FiniteSets, TLC

VARIABLES
    grid,       \* sampler: the raster layer (extent, width, height, cells)
    poly,       \* sampler: the polygon geometry, a sequence of vertices
    spc,        \* sampler: "call" before the call, "done" after it
    sres,       \* sampler: the value returned by extract_raster_values_in_polygon
    slocals,    \* sampler: its locals at the return (index range, total_pixels)
    script,     \* which script runs: "biomass", "shape", "prob" ("none": sampler only)
    project,    \* the QGIS project: names of its layers, kind of the active layer
    numpy,      \* whether "import numpy" succeeds
    rasters,    \* harvest_prob_extract: the Harvest_10m, AGB_Masked, harvest_prob_10m rasters
    features,   \* the features the vector layer's getFeatures() yields, in order
    idx,        \* how many features the loop has taken
    stats,      \* biomass: the local biomass_stats
    results,    \* biomass: the list results; prob: the list csv_data
    pixels,     \* prob: how many pixels have been read
    file,       \* the output CSV file
    file0,      \* the output CSV file as it was before the run
    log,        \* what was printed, in order
    iofail,     \* whether creating the directory, opening or writing the file failed
    pc,         \* "start", "loop", "extract", "write", "returned", "raised", "exit"
    geom,       \* shape functions: the geometry handed to the function called
    mpc,        \* shape functions: "call" before the call, then "elongated" or "measured"
    mres        \* shape functions: the value the function returned

samplerVars == <<grid, poly, spc, sres, slocals>>

scriptVars ==
    <<script, project, numpy, rasters, features, idx, stats, results, pixels,
      file, file0, log, iofail, pc>>

metricsVars == <<geom, mpc, mres>>

vars == <<samplerVars, scriptVars, metricsVars>>

---------------------------------------------------------------------------
(* Bounds of the model *)

\* polygon coordinates range from Margin below to Margin above the small grid's extent
Margin == 3

\* the longest list of features a vector layer holds
MaxFeatures == 3

\* the longest side of an oriented bounding box, in steps along its direction
MaxSide == 4

---------------------------------------------------------------------------
(* Arithmetic helpers *)

\* the not-a-number value returned by provider.sample for a failed sample
NaN == -1

Max(a, b) == IF a >= b THEN a ELSE b

Min(a, b) == IF a <= b THEN a ELSE b

\* Python's int(a / b) for b > 0: truncation toward zero
TruncDiv(a, b) == IF a >= 0 THEN a \div b ELSE -((-a) \div b)

\* the sum of s[lo..hi], by halves
RECURSIVE SumRange(_, _, _)
SumRange(s, lo, hi) ==
    IF lo > hi THEN 0
    ELSE IF lo = hi THEN s[lo]
    ELSE LET mid == (lo + hi) \div 2
         IN  SumRange(s, lo, mid) + SumRange(s, mid + 1, hi)

SumSeq(s) == SumRange(s, 1, Len(s))

---------------------------------------------------------------------------
(* Geometry: QgsGeometry.boundingBox and QgsGeometry.contains(point) for a *)
(* convex polygon given by its vertices.                                   *)

SetMin(S) == CHOOSE m \in S : \A x \in S : m <= x

SetMax(S) == CHOOSE m \in S : \A x \in S : m >= x

boundingBox(p) ==
    [xMinimum |-> SetMin({p[i][1] : i \in DOMAIN p}),
     xMaximum |-> SetMax({p[i][1] : i \in DOMAIN p}),
     yMinimum |-> SetMin({p[i][2] : i \in DOMAIN p}),
     yMaximum |-> SetMax({p[i][2] : i \in DOMAIN p})]

\* cross product of the edge p[i] -> p[i+1] with the vector p[i] -> (x, y)
EdgeSide(p, i, x, y) ==
    LET a == p[i]
        b == p[(i % Len(p)) + 1]
    IN  (b[1] - a[1]) * (y - a[2]) - (b[2] - a[2]) * (x - a[1])

\* GEOS "contains" for a point: the point is in the interior, never on the boundary
contains(p, x, y) ==
    \/ \A i \in DOMAIN p : EdgeSide(p, i, x, y) > 0
    \/ \A i \in DOMAIN p : EdgeSide(p, i, x, y) < 0

---------------------------------------------------------------------------
(* The raster layer and its data provider *)

pixel_size_x(g) == (g.xMaximum - g.xMinimum) \div g.width

pixel_size_y(g) == (g.yMaximum - g.yMinimum) \div g.height

\* floor division for a positive divisor
FloorDiv(a, b) == IF a >= 0 THEN a \div b ELSE -(((-a) + b - 1) \div b)

\* provider.sample(point, 1): (value, success) of the cell that holds the point;
\* outside the extent the sample fails and the value is NaN
sample(g, x, y) ==
    LET c == FloorDiv(x - g.xMinimum, pixel_size_x(g))
        r == FloorDiv(g.yMaximum - y, pixel_size_y(g))
    IN  IF r \in 0..(g.height - 1) /\ c \in 0..(g.width - 1)
        THEN g.cells[r + 1][c + 1]
        ELSE [value |-> NaN, success |-> FALSE]

---------------------------------------------------------------------------
(* extract_raster_values_in_polygon *)

NoDataThreshold == 65530

\* a plausible slip: the range taken exclusive of the cells holding the box's edges
IndexRangeExclusive(g, p) ==
    LET bbox == boundingBox(p)
    IN  [min_col |-> Max(0, TruncDiv(bbox.xMinimum - g.xMinimum, pixel_size_x(g)) + 1),
         max_col |-> Min(g.width - 1, TruncDiv(bbox.xMaximum - g.xMinimum, pixel_size_x(g)) - 1),
         min_row |-> Max(0, TruncDiv(g.yMaximum - bbox.yMaximum, pixel_size_y(g)) + 1),
         max_row |-> Min(g.height - 1, TruncDiv(g.yMaximum - bbox.yMinimum, pixel_size_y(g)) - 1)]

\* lines 215-222: the bounding box as a clamped range of cell indices
IndexRange(g, p) ==
    LET bbox == boundingBox(p)
    IN  [min_col |-> Max(0, TruncDiv(bbox.xMinimum - g.xMinimum, pixel_size_x(g))),
         max_col |-> Min(g.width - 1, TruncDiv(bbox.xMaximum - g.xMinimum, pixel_size_x(g))),
         min_row |-> Max(0, TruncDiv(g.yMaximum - bbox.yMaximum, pixel_size_y(g))),
         max_row |-> Min(g.height - 1, TruncDiv(g.yMaximum - bbox.yMinimum, pixel_size_y(g)))]

\* lines 233-234: the centre of cell (row, col)
CenterX(g, col) == g.xMinimum + col * pixel_size_x(g) + pixel_size_x(g) \div 2

CenterY(g, row) == g.yMaximum - row * pixel_size_y(g) - pixel_size_y(g) \div 2

\* plausible slips: no-data as exact equality with one sentinel; no no-data filter at all
IsValidExact(s) == s.success /\ s.value # NaN /\ s.value # 65535

IsValidNoFilter(s) == s.success /\ s.value # NaN

\* lines 241-243: success, not NaN, and below the no-data threshold
IsValid(s) == s.success /\ s.value # NaN /\ s.value < NoDataThreshold

\* a plausible slip: total_pixels counted only inside the polygon
CellStepCountInside(g, p, row, col) ==
    LET x == CenterX(g, col)
        y == CenterY(g, row)
        s == sample(g, x, y)
    IN  IF contains(p, x, y)
        THEN [total_pixels |-> 1,
              valid_values |-> IF IsValid(s) THEN <<s.value>> ELSE <<>>]
        ELSE [total_pixels |-> 0, valid_values |-> <<>>]

\* lines 230-244: the body of the loops for one cell, as what it adds to
\* total_pixels and what it appends to valid_values
CellStep(g, p, row, col) ==
    LET x == CenterX(g, col)
        y == CenterY(g, row)
        s == sample(g, x, y)
    IN  [total_pixels |-> 1,
         valid_values |-> IF contains(p, x, y) /\ IsValid(s)
                          THEN <<s.value>>
                          ELSE <<>>]

\* the effect of two successive stretches of the loops
Then(a, b) ==
    [total_pixels |-> a.total_pixels + b.total_pixels,
     valid_values |-> a.valid_values \o b.valid_values]

\* line 229: for col in range(min_col, max_col + 1), from col on
RECURSIVE ScanRow(_, _, _, _, _)
ScanRow(g, p, R, row, col) ==
    IF col > R.max_col THEN [total_pixels |-> 0, valid_values |-> <<>>]
    ELSE Then(CellStep(g, p, row, col), ScanRow(g, p, R, row, col + 1))

\* line 228: for row in range(min_row, max_row + 1), from row on
RECURSIVE ScanCells(_, _, _, _)
ScanCells(g, p, R, row) ==
    IF row > R.max_row THEN [total_pixels |-> 0, valid_values |-> <<>>]
    ELSE Then(ScanRow(g, p, R, row, R.min_col), ScanCells(g, p, R, row + 1))

None == [none |-> TRUE]

NoLocals ==
    [range |-> [min_col |-> 0, max_col |-> -1, min_row |-> 0, max_row |-> -1],
     total_pixels |-> 0, valid_values |-> <<>>]

\* lines 215-244: the locals when the loops have ended
ScanResult(g, p) ==
    LET R == IndexRange(g, p)
        acc == ScanCells(g, p, R, R.min_row)
    IN  [range |-> R, total_pixels |-> acc.total_pixels,
         valid_values |-> acc.valid_values]

\* line 249: coverage_pct, kept as the exact fraction num / den
CoveragePct(n, total_pixels) ==
    IF total_pixels > 0 THEN [num |-> n * 100, den |-> total_pixels]
    ELSE [num |-> 0, den |-> 1]

\* a plausible slip: the test "if not valid_values: return None" is missing
ExtractNoEarlyReturn(g, p) ==
    LET acc == ScanResult(g, p)
    IN  IF g.broken THEN None
        ELSE [none |-> FALSE,
              values |-> acc.valid_values,
              pixel_count |-> Len(acc.valid_values),
              coverage_pct |-> CoveragePct(Len(acc.valid_values), acc.total_pixels)]

\* lines 246-255: None when nothing valid was collected, else the result dictionary
\* lines 205-207, 257-259: a layer whose provider raises makes the call return None
extract_raster_values_in_polygon(g, p) ==
    LET acc == ScanResult(g, p)
    IN  IF g.broken THEN None
        ELSE IF Len(acc.valid_values) = 0 THEN None
        ELSE [none |-> FALSE,
              values |-> acc.valid_values,
              pixel_count |-> Len(acc.valid_values),
              coverage_pct |-> CoveragePct(Len(acc.valid_values), acc.total_pixels)]

---------------------------------------------------------------------------
(* Inputs of the sampler *)

Ok(v) == [value |-> v, success |-> TRUE]

Failed == [value |-> NaN, success |-> FALSE]

\* the value patterns of the rasters, by 0-based (row, col)
PatternCell(pat, r, c, w) ==
    CASE pat = "uniform"   -> Ok(5)
      [] pat = "corner"    -> IF r = 0 /\ c = 0 THEN Ok(65535) ELSE Ok(5)
      [] pat = "distinct"  -> IF r = 0 /\ c = 0 THEN Ok(65535) ELSE Ok(10 + r * w + c)
      [] pat = "nodata"    -> IF (r + c) % 2 = 0 THEN Ok(65535) ELSE Ok(65534)
      [] pat = "mixed"     ->
            LET k == (r * w + c) % 6
            IN  CASE k = 0 -> Ok(65529)
                  [] k = 1 -> Ok(65530)
                  [] k = 2 -> Ok(NaN)
                  [] k = 3 -> Failed
                  [] k = 4 -> Ok(7)
                  [] k = 5 -> Ok(65535)

MakeGrid(x0, x1, y0, y1, w, h, pat) ==
    [xMinimum |-> x0, xMaximum |-> x1, yMinimum |-> y0, yMaximum |-> y1,
     width |-> w, height |-> h, broken |-> FALSE,
     cells |-> [r \in 1..h |-> [c \in 1..w |-> PatternCell(pat, r - 1, c - 1, w)]]]

\* the example grid: origin (0, 100), pixel size 10 x 10, 10 x 10 cells
ExampleGrid(pat) == MakeGrid(0, 100, 0, 100, 10, 10, pat)

\* a small grid, 3 columns by 2 rows of 2 x 2 pixels, origin (2, 7)
SmallGrid(pat) == MakeGrid(2, 8, 3, 7, 3, 2, pat)

Shapes == {"rect", "tri_ll", "tri_lr", "tri_ul", "tri_ur"}

\* a rectangle, or the triangle left when one corner of it is cut off
MakePolygon(x1, x2, y1, y2, shape) ==
    CASE shape = "rect"   -> << <<x1, y1>>, <<x2, y1>>, <<x2, y2>>, <<x1, y2>> >>
      [] shape = "tri_ll" -> << <<x2, y1>>, <<x2, y2>>, <<x1, y2>> >>
      [] shape = "tri_lr" -> << <<x1, y1>>, <<x2, y2>>, <<x1, y2>> >>
      [] shape = "tri_ul" -> << <<x1, y1>>, <<x2, y1>>, <<x2, y2>> >>
      [] shape = "tri_ur" -> << <<x1, y1>>, <<x2, y1>>, <<x1, y2>> >>

\* the non-degenerate boxes x1 < x2, y1 < y2 over the coordinates xs, ys
Boxes(xs, ys) ==
    {b \in xs \X xs \X ys \X ys : b[1] < b[2] /\ b[3] < b[4]}

PolygonsOver(xs, ys) ==
    {MakePolygon(b[1], b[2], b[3], b[4], sh) : b \in Boxes(xs, ys), sh \in Shapes}

ExampleCoords == {-10, 0, 25, 60, 100, 110}

FullBoxPolygon == MakePolygon(0, 100, 0, 100, "rect")

SmallPatterns == {"uniform", "distinct", "mixed", "nodata"}

ExamplePatterns == {"uniform", "corner"}

SamplerInputs ==
    ({SmallGrid(pat) : pat \in SmallPatterns}
        \X PolygonsOver((2 - Margin)..(8 + Margin), (3 - Margin)..(7 + Margin)))
    \cup
    ({ExampleGrid(pat) : pat \in ExamplePatterns}
        \X PolygonsOver(ExampleCoords, ExampleCoords))
    \cup
    ({[SmallGrid("uniform") EXCEPT !.broken = TRUE]}
        \X PolygonsOver({2, 5, 8}, {3, 7}))

---------------------------------------------------------------------------
(* What the three scripts share: printed messages, the CSV file, I/O faults *)

Msg(level, text, about) == [level |-> level, text |-> text, about |-> about]

AbsentFile == [exists |-> FALSE, lines |-> <<>>]

StaleFile == [exists |-> TRUE, lines |-> <<[kind |-> "stale"]>>]

Header(columns) == [kind |-> "header", columns |-> columns]

\* open(path, 'w') then the writes: the file holds the first k of the lines
Written(lines, k) == [exists |-> TRUE, lines |-> SubSeq(lines, 1, k)]

\* all feature lists of at most MaxFeatures features over the given kinds
FeatureLists(kinds) == UNION {[1..n -> kinds] : n \in 0..MaxFeatures}

---------------------------------------------------------------------------
(* Harvest_Biomass_Stats.py: extract_biomass_statistics *)

\* lines 126-145: the row of one patch (the statistics that are sums and counts)
BiomassRow(fid, st) ==
    [kind |-> "row", feature_id |-> fid,
     sum_biomass |-> SumSeq(st.values),
     min_biomass |-> SetMin({st.values[i] : i \in DOMAIN st.values}),
     max_biomass |-> SetMax({st.values[i] : i \in DOMAIN st.values}),
     pixel_count |-> Len(st.values),
     data_coverage_pct |-> st.coverage_pct]

\* a plausible slip: the "continue" after the warning is missing
BiomassFeatureNoContinue(g, f, fid, prev) ==
    IF f.fault = "geometry"
    THEN [stats |-> prev, rows |-> <<>>, pc |-> "loop",
          log |-> <<Msg("error", "error_processing_feature", fid)>>]
    ELSE LET st == extract_raster_values_in_polygon(
                       IF f.fault = "sampling" THEN [g EXCEPT !.broken = TRUE] ELSE g,
                       f.poly)
             caught == IF f.fault = "sampling"
                       THEN <<Msg("error", "error_extracting_raster_values", fid)>>
                       ELSE <<>>
         IN  IF st.none \/ st.pixel_count = 0
             THEN [stats |-> st, pc |-> "loop",
                   rows |-> <<[kind |-> "row", feature_id |-> fid, sum_biomass |-> 0,
                               min_biomass |-> 0, max_biomass |-> 0, pixel_count |-> 0,
                               data_coverage_pct |-> CoveragePct(0, 0)]>>,
                   log |-> caught \o <<Msg("warning", "no_valid_biomass_data", fid)>>]
             ELSE [stats |-> st, rows |-> <<BiomassRow(fid, st)>>, pc |-> "loop",
                   log |-> caught]

\* lines 107-164: one turn of the loop on feature f: what it leaves in biomass_stats,
\* what it appends to results, what it prints, where the run goes on
BiomassFeatureStep(g, f, fid, prev) ==
    IF f.fault = "geometry"
    THEN \* lines 109-115 raise; lines 162-164 print and continue
         [stats |-> prev, rows |-> <<>>, pc |-> "loop",
          log |-> <<Msg("error", "error_processing_feature", fid)>>]
    ELSE LET st == extract_raster_values_in_polygon(
                       IF f.fault = "sampling" THEN [g EXCEPT !.broken = TRUE] ELSE g,
                       f.poly)
             \* lines 257-259: the sampler prints what it caught
             caught == IF f.fault = "sampling"
                       THEN <<Msg("error", "error_extracting_raster_values", fid)>>
                       ELSE <<>>
         IN  IF st.none \/ st.pixel_count = 0
             THEN [stats |-> st, rows |-> <<>>, pc |-> "loop",
                   log |-> caught \o <<Msg("warning", "no_valid_biomass_data", fid)>>]
             ELSE [stats |-> st, rows |-> <<BiomassRow(fid, st)>>, pc |-> "loop",
                   log |-> caught]

\* a plausible slip: only the vector layer is validated
BiomassMissingLayerVectorOnly(layers) ==
    IF "Vectorized" \notin layers THEN "harvest_layer_not_found" ELSE "none"

\* lines 47-59: the layer whose absence raises, or "none"
BiomassMissingLayer(layers) ==
    IF "Vectorized" \notin layers THEN "harvest_layer_not_found"
    ELSE IF "AGB_Masked" \notin layers THEN "biomass_layer_not_found"
    ELSE "none"

\* lines 38-101, 188-190
BiomassLoad ==
    /\ script = "biomass" /\ pc = "start"
    /\ IF BiomassMissingLayer(project.layers) # "none"
       THEN /\ log' = Append(log, Msg("error", BiomassMissingLayer(project.layers), 0))
            /\ pc' = "raised"
       ELSE /\ log' = log
            /\ pc' = "loop"
    /\ results' = <<>>
    /\ idx' = 0
    /\ UNCHANGED <<script, project, numpy, rasters, features, stats, pixels,
                   file, file0, iofail, samplerVars, metricsVars>>

\* lines 103-164
BiomassFeature ==
    /\ script = "biomass" /\ pc = "loop" /\ idx < Len(features)
    /\ LET o == BiomassFeatureStep(grid, features[idx + 1], idx + 1, stats)
       IN  /\ stats' = o.stats
           /\ results' = results \o o.rows
           /\ log' = log \o o.log
           /\ pc' = o.pc
    /\ idx' = idx + 1
    /\ UNCHANGED <<script, project, numpy, rasters, features, pixels,
                   file, file0, iofail, samplerVars, metricsVars>>

\* a plausible slip: writer.writeheader() is missing
BiomassLinesNoHeader == results

\* lines 171-173: the header, then the rows of results
BiomassLines == <<Header("biomass")>> \o results

\* lines 166-176 and 188-190: the loop has ended; makedirs, open, write, print
BiomassWrite ==
    /\ script = "biomass" /\ pc = "loop" /\ idx = Len(features)
    /\ \/ /\ file' = Written(BiomassLines, Len(BiomassLines))
          /\ log' = Append(log, Msg("success", "analysis_complete", Len(results)))
          /\ pc' = "returned"
          /\ iofail' = iofail
       \/ \* os.makedirs or open raises
          /\ file' = file
          /\ log' = Append(log, Msg("error", "error_reraised", 0))
          /\ pc' = "raised"
          /\ iofail' = TRUE
       \/ \* a write raises when k lines have reached the file
          \E k \in 0..(Len(BiomassLines) - 1) :
              /\ file' = Written(BiomassLines, k)
              /\ log' = Append(log, Msg("error", "error_reraised", 0))
              /\ pc' = "raised"
              /\ iofail' = TRUE
    /\ UNCHANGED <<script, project, numpy, rasters, features, idx, stats, results,
                   pixels, file0, samplerVars, metricsVars>>

\* the raster AGB_Masked of the biomass script
BiomassRaster == SmallGrid("distinct")

BiomassFeatureKinds ==
    {[poly |-> MakePolygon(2, 8, 3, 7, "rect"), fault |-> "none"],      \* every cell
     [poly |-> MakePolygon(3, 9, 2, 6, "tri_ul"), fault |-> "none"],    \* some cells
     [poly |-> MakePolygon(9, 11, 3, 7, "rect"), fault |-> "none"],     \* beside the grid
     [poly |-> MakePolygon(3, 5, 4, 6, "rect"), fault |-> "none"],      \* between centres
     [poly |-> MakePolygon(2, 4, 5, 7, "rect"), fault |-> "none"],      \* the no-data cell
     [poly |-> MakePolygon(2, 8, 3, 7, "rect"), fault |-> "geometry"],
     [poly |-> MakePolygon(2, 8, 3, 7, "rect"), fault |-> "sampling"]}

---------------------------------------------------------------------------
(* calculate_shape_metrics.py *)

---------------------------------------------------------------------------
(* calculate_elongation_and_orientation.  The vertices of the oriented      *)
(* bounding box are integers in hundredths of a metre, so round(length, 2) *)
(* is the rounding of a length to the nearest integer.  A length is kept   *)
(* as its square; an angle is kept as the ray it is the angle of.          *)

\* lines 168-170 and 198-200: dx*dx + dy*dy for the edge vertices[i] -> vertices[i+1]
SquaredLength(vertices, i) ==
    LET dx == vertices[i + 1][1] - vertices[i][1]
        dy == vertices[i + 1][2] - vertices[i][2]
    IN  dx * dx + dy * dy

RECURSIVE ISqrtFrom(_, _)
ISqrtFrom(n, r) == IF (r + 1) * (r + 1) > n THEN r ELSE ISqrtFrom(n, r + 1)

\* the integer part of math.sqrt(n)
ISqrt(n) == ISqrtFrom(n, 0)

\* line 177: round(math.sqrt(d2), 2), in hundredths; sqrt(d2) is never half-way
\* between two integers, because 4 * d2 is never an odd square
RoundedLength(d2) == (ISqrt(4 * d2) + 1) \div 2

RECURSIVE GCD(_, _)
GCD(a, b) == IF b = 0 THEN a ELSE GCD(b, a % b)

Abs(a) == IF a >= 0 THEN a ELSE -a

\* line 204: math.degrees(math.atan2(dy, dx)), an angle of (-180, 180], kept as the
\* ray from the origin through (dx, dy) in lowest terms; atan2(0, 0) is 0
atan2(dy, dx) ==
    IF dx = 0 /\ dy = 0 THEN [dy |-> 0, dx |-> 1]
    ELSE [dy |-> dy \div GCD(Abs(dx), Abs(dy)), dx |-> dx \div GCD(Abs(dx), Abs(dy))]

\* the angle 0.0
Angle0 == [dy |-> 0, dx |-> 1]

\* angle < 0: the ray points below the horizontal axis
IsNegativeAngle(a) == a.dy < 0

\* angle + 180 for an angle of (-180, 0): the opposite ray
Plus180(a) == [dy |-> -a.dy, dx |-> -a.dx]

\* lines 194-204: the loop over the edges from edge i on; a longer edge replaces
\* max_length and orientation_angle
RECURSIVE OrientationLoop(_, _, _, _)
OrientationLoop(vertices, i, max_length2, orientation_angle) ==
    IF i > Len(vertices) - 1 THEN orientation_angle
    ELSE IF SquaredLength(vertices, i) > max_length2
    THEN OrientationLoop(vertices, i + 1, SquaredLength(vertices, i),
                         atan2(vertices[i + 1][2] - vertices[i][2],
                               vertices[i + 1][1] - vertices[i][1]))
    ELSE OrientationLoop(vertices, i + 1, max_length2, orientation_angle)

\* lines 206-208: a negative angle has 180 added
NormalizeAngle(a) == IF IsNegativeAngle(a) THEN Plus180(a) ELSE a

\* the ratio 1.0
One == [num |-> 1, den |-> 1]

\* lines 149, 155, 163, 174, 180, 214: return 1.0, 0.0
DefaultElongation == [elongation_ratio |-> One, orientation |-> Angle0]

\* line 177: the set of the rounded side lengths
UniqueLengths(vertices) ==
    {RoundedLength(SquaredLength(vertices, i)) : i \in 1..(Len(vertices) - 1)}

\* lines 140-214: box is what geom.orientedMinimumBoundingBox()[0] is: a polygon
\* with its vertices (the ring, closed), a geometry of no type, or the call raises
calculate_elongation_and_orientation(box) ==
    IF box.kind # "polygon" THEN DefaultElongation
    ELSE IF Len(box.vertices) < 4 THEN DefaultElongation
    ELSE IF Len(box.vertices) - 1 < 2 THEN DefaultElongation
    ELSE IF Cardinality(UniqueLengths(box.vertices)) < 2 THEN DefaultElongation
    ELSE LET unique_lengths == UniqueLengths(box.vertices)
             minor_axis == SetMin(unique_lengths)
             major_axis == SetMin(unique_lengths \ {minor_axis})
         IN  [elongation_ratio |-> IF minor_axis > 0
                                   THEN [num |-> major_axis, den |-> minor_axis]
                                   ELSE One,
              orientation |-> NormalizeAngle(
                                  OrientationLoop(box.vertices, 1, 0, Angle0))]

---------------------------------------------------------------------------
(* calculate_feature_metrics *)

\* lines 109-112: 0 when the guard fails; math.log(1) = 0 makes the division raise
FractalDimensionIndex(area_m2, perimeter_m) ==
    IF area_m2 > 0 /\ perimeter_m > 0
    THEN [zero |-> FALSE, raises |-> area_m2 = 1,
          perimeter_m |-> perimeter_m, area_m2 |-> area_m2]
    ELSE [zero |-> TRUE, raises |-> FALSE, perimeter_m |-> 0, area_m2 |-> 0]

\* lines 120-134: the row of one feature (the measures that need no sqrt, and the
\* fractal dimension index as the pair it is computed from; the rounding of the
\* columns is left out)
ShapeRow(fid, f) ==
    [kind |-> "row", feature_id |-> fid, area_m2 |-> f.area_m2,
     perimeter_m |-> f.perimeter_m,
     fractal_dimension_index |-> FractalDimensionIndex(f.area_m2, f.perimeter_m),
     elongation_ratio |-> calculate_elongation_and_orientation(f.box).elongation_ratio,
     orientation_degrees |-> calculate_elongation_and_orientation(f.box).orientation]

\* lines 100-110: a statement of the computation raises: f.raises stands for any
\* error of the geometry; perimeter_m ** 2 = 0 and math.log(area_m2) = 0 are the
\* divisions by zero
MetricsRaise(f) ==
    \/ f.raises
    \/ f.perimeter_m = 0
    \/ FractalDimensionIndex(f.area_m2, f.perimeter_m).raises

\* a plausible slip: no try/except around the metrics
ShapeMetricsUncaught(f, fid) ==
    IF f.area_m2 < 1000 THEN [rows |-> <<>>, log |-> <<>>, raised |-> FALSE]
    ELSE IF MetricsRaise(f)
    THEN [rows |-> <<>>, log |-> <<>>, raised |-> TRUE]
    ELSE [rows |-> <<ShapeRow(fid, f)>>, log |-> <<>>, raised |-> FALSE]

\* lines 75-138, calculate_feature_metrics: None for a polygon under 0.1 ha
\* (area_m2 / 10000 < 0.1), None and a printed error when the computation raises,
\* else the row
calculate_feature_metrics(f, fid) ==
    IF f.area_m2 < 1000 THEN [rows |-> <<>>, log |-> <<>>, raised |-> FALSE]
    ELSE IF MetricsRaise(f)
    THEN [rows |-> <<>>, raised |-> FALSE,
          log |-> <<Msg("error", "error_calculating_metrics", fid)>>]
    ELSE [rows |-> <<ShapeRow(fid, f)>>, log |-> <<>>, raised |-> FALSE]

\* lines 53-64: what the loop does with feature f up to the test "if metrics"
ShapeFeatureStep(f, fid) ==
    IF f.geometry # "polygon" THEN [rows |-> <<>>, log |-> <<>>, raised |-> FALSE]
    ELSE calculate_feature_metrics(f, fid)

\* lines 16-50: no active vector layer: print and return; else open the file and
\* write the header
ShapeStart ==
    /\ script = "shape" /\ pc = "start"
    /\ idx' = 0
    /\ IF project.active # "vector"
       THEN /\ log' = Append(log, Msg("error", "please_select_layer", 0))
            /\ pc' = "returned"
            /\ UNCHANGED <<file, iofail>>
       ELSE \/ /\ file' = Written(<<Header("shape")>>, 1)
               /\ pc' = "loop"
               /\ UNCHANGED <<log, iofail>>
            \/ \* open raises
               /\ log' = Append(log, Msg("error", "error_writing_csv", 0))
               /\ pc' = "returned"
               /\ iofail' = TRUE
               /\ file' = file
            \/ \* writing the header raises
               /\ log' = Append(log, Msg("error", "error_writing_csv", 0))
               /\ pc' = "returned"
               /\ iofail' = TRUE
               /\ file' = Written(<<>>, 0)
    /\ UNCHANGED <<script, project, numpy, rasters, features, stats, results, pixels,
                   file0, samplerVars, metricsVars>>

\* lines 53-67, 72-73
ShapeFeature ==
    /\ script = "shape" /\ pc = "loop" /\ idx < Len(features)
    /\ idx' = idx + 1
    /\ LET o == ShapeFeatureStep(features[idx + 1], idx + 1)
       IN  IF o.raised
           THEN /\ log' = Append(log \o o.log, Msg("error", "error_writing_csv", 0))
                /\ pc' = "returned"
                /\ UNCHANGED <<file, iofail>>
           ELSE \/ /\ file' = [file EXCEPT !.lines = @ \o o.rows]
                   /\ log' = log \o o.log
                   /\ pc' = "loop"
                   /\ iofail' = iofail
                \/ \* writer.writerow raises
                   /\ o.rows # <<>>
                   /\ file' = file
                   /\ log' = Append(log \o o.log, Msg("error", "error_writing_csv", 0))
                   /\ pc' = "returned"
                   /\ iofail' = TRUE
    /\ UNCHANGED <<script, project, numpy, rasters, features, stats, results, pixels,
                   file0, samplerVars, metricsVars>>

\* lines 68-73: the loop has ended; the file is closed, two lines are printed
ShapeFinish ==
    /\ script = "shape" /\ pc = "loop" /\ idx = Len(features)
    /\ \/ /\ log' = log \o <<Msg("success", "shape_metrics_exported", 0),
                             Msg("info", "processed_features", Len(features))>>
          /\ iofail' = iofail
          /\ file' = file
       \/ \* closing the file raises when only k of its lines have reached it
          \E k \in 0..(Len(file.lines) - 1) :
              /\ file' = Written(file.lines, k)
              /\ log' = Append(log, Msg("error", "error_writing_csv", 0))
              /\ iofail' = TRUE
    /\ pc' = "returned"
    /\ UNCHANGED <<script, project, numpy, rasters, features, idx, stats, results,
                   pixels, file0, samplerVars, metricsVars>>

\* lines 283-288: calculate_shape_metrics() has returned; the module prints its last line
ShapeMainEnd ==
    /\ script = "shape" /\ pc = "returned"
    /\ log' = Append(log, Msg("success", "calculation_completed", 0))
    /\ pc' = "exit"
    /\ UNCHANGED <<script, project, numpy, rasters, features, idx, stats, results,
                   pixels, file, file0, iofail, samplerVars, metricsVars>>

\* the corners of a w x h rectangle at the origin, listed counter-clockwise from
\* the lower left as a closed ring
BoxOf(w, h) ==
    [kind |-> "polygon",
     vertices |-> << <<0, 0>>, <<w, 0>>, <<w, h>>, <<0, h>>, <<0, 0>> >>]

\* orientedMinimumBoundingBox of a geometry that has none
\* (the area, the perimeter and the box of a feature are given independently, as the
\* three results of the geometry library that they are)
NullBox == [kind |-> "null", vertices |-> <<>>]

ShapeFeatureKinds ==
    {[geometry |-> "polygon", area_m2 |-> 2500, perimeter_m |-> 200, raises |-> FALSE,
      box |-> BoxOf(50, 50)],
     [geometry |-> "polygon", area_m2 |-> 5000, perimeter_m |-> 300, raises |-> TRUE,
      box |-> BoxOf(100, 50)],
     [geometry |-> "polygon", area_m2 |-> 999, perimeter_m |-> 150, raises |-> FALSE,
      box |-> BoxOf(37, 27)],
     [geometry |-> "line", area_m2 |-> 0, perimeter_m |-> 40, raises |-> FALSE,
      box |-> NullBox],
     [geometry |-> "none", area_m2 |-> 0, perimeter_m |-> 0, raises |-> FALSE,
      box |-> NullBox]}

---------------------------------------------------------------------------
(* harvest_prob_extract.py *)

\* IEEE 754 comparisons: every == with NaN is false, every != with NaN is true
Eq(a, b) == a # NaN /\ b # NaN /\ a = b

Ne(a, b) == ~Eq(a, b)

\* provider.sample(point, 1)[0] on a raster whose cells hold raw values: NaN for a
\* cell holding the provider's no-data value, and outside the extent
SampleValue(r, x, y) ==
    LET c == FloorDiv(x - r.xMinimum, pixel_size_x(r))
        w == FloorDiv(r.yMaximum - y, pixel_size_y(r))
    IN  IF w \in 0..(r.height - 1) /\ c \in 0..(r.width - 1)
        THEN IF Eq(r.raw[w + 1][c + 1], r.nodata) THEN NaN ELSE r.raw[w + 1][c + 1]
        ELSE NaN

\* lines 73-91: what the loops append to csv_data for pixel (row, col)
PixelRows(rs, row, col) ==
    LET x == CenterX(rs.harvest, col)
        y == CenterY(rs.harvest, row)
        harvest_value == SampleValue(rs.harvest, x, y)
        agb_value == SampleValue(rs.agb, x, y)
        harvest_prob_value == SampleValue(rs.prob, x, y)
    IN  IF Eq(harvest_value, 1)
           /\ Ne(agb_value, rs.agb.nodata)
           /\ Ne(harvest_prob_value, rs.prob.nodata)
        THEN <<[kind |-> "row", x |-> x, y |-> y, agb |-> agb_value,
                prob |-> harvest_prob_value]>>
        ELSE <<>>

\* lines 167-177: what the loop appends for pixel (row, col) of the arrays;
\* np.where yields only the pixels of the mask
PixelRowsNumpy(rs, row, col) ==
    LET x == CenterX(rs.harvest, col)
        y == CenterY(rs.harvest, row)
        agb_val == rs.agb.raw[row + 1][col + 1]
        harvest_prob_val == rs.prob.raw[row + 1][col + 1]
    IN  IF Eq(rs.harvest.raw[row + 1][col + 1], 1)
           /\ ~(agb_val = NaN \/ harvest_prob_val = NaN)
        THEN <<[kind |-> "row", x |-> x, y |-> y, agb |-> agb_val,
                prob |-> harvest_prob_val]>>
        ELSE <<>>

\* lines 69-73 and 162-168: the pixels in row-major order, from pixel k on
RECURSIVE ExtractFrom(_, _, _)
ExtractFrom(rs, k, np) ==
    IF k >= rs.harvest.width * rs.harvest.height THEN <<>>
    ELSE LET row == k \div rs.harvest.width
             col == k % rs.harvest.width
         IN  (IF np THEN PixelRowsNumpy(rs, row, col) ELSE PixelRows(rs, row, col))
                 \o ExtractFrom(rs, k + 1, np)

\* lines 32-41 and 137-139: the message printed for a missing layer, or "none"
ProbMissingLayer(layers, np) ==
    IF np
    THEN IF {"AGB_Masked", "Harvest_10m", "harvest_prob_10m"} \subseteq layers
         THEN "none" ELSE "layers_not_found"
    ELSE IF "AGB_Masked" \notin layers THEN "agb_layer_not_found"
    ELSE IF "Harvest_10m" \notin layers THEN "harvest_layer_not_found"
    ELSE IF "harvest_prob_10m" \notin layers THEN "prob_layer_not_found"
    ELSE "none"

\* lines 194-197, 112-139 (112-117 and 14-41 when numpy cannot be imported)
ProbStart ==
    /\ script = "prob" /\ pc = "start"
    /\ IF ProbMissingLayer(project.layers, numpy) # "none"
       THEN /\ log' = Append(log, Msg("error", ProbMissingLayer(project.layers, numpy), 0))
            /\ pc' = "returned"
       ELSE /\ log' = log
            /\ pc' = "extract"
    /\ UNCHANGED <<script, project, numpy, rasters, features, idx, stats, results,
                   pixels, file, file0, iofail, samplerVars, metricsVars>>

\* lines 143-177 (48-91 when numpy cannot be imported)
ProbExtract ==
    /\ script = "prob" /\ pc = "extract"
    /\ results' = <<Header("prob")>> \o ExtractFrom(rasters, 0, numpy)
    /\ pixels' = rasters.harvest.width * rasters.harvest.height
    /\ pc' = "write"
    /\ UNCHANGED <<script, project, numpy, rasters, features, idx, stats,
                   file, file0, log, iofail, samplerVars, metricsVars>>

\* lines 179-190 (93-105 when numpy cannot be imported)
ProbWrite ==
    /\ script = "prob" /\ pc = "write"
    /\ \/ /\ file' = Written(results, Len(results))
          /\ log' = Append(log, Msg("success", "successfully_exported", Len(results) - 1))
          /\ iofail' = iofail
       \/ \* open raises
          /\ file' = file
          /\ log' = Append(log, Msg("error", "error_writing_csv", 0))
          /\ iofail' = TRUE
       \/ \* a write raises when k lines have reached the file
          \E k \in 0..(Len(results) - 1) :
              /\ file' = Written(results, k)
              /\ log' = Append(log, Msg("error", "error_writing_csv", 0))
              /\ iofail' = TRUE
    /\ pc' = "returned"
    /\ UNCHANGED <<script, project, numpy, rasters, features, idx, stats, results,
                   pixels, file0, samplerVars, metricsVars>>

\* lines 197-199: the function has returned; the module prints its last line
ProbMainEnd ==
    /\ script = "prob" /\ pc = "returned"
    /\ log' = Append(log, Msg("success", "extraction_complete", 0))
    /\ pc' = "exit"
    /\ UNCHANGED <<script, project, numpy, rasters, features, idx, stats, results,
                   pixels, file, file0, iofail, samplerVars, metricsVars>>

\* a 2 x 2 raster over the extent (0, 0)-(4, 4)
MakeRaster(raw, nodata) ==
    [xMinimum |-> 0, xMaximum |-> 4, yMinimum |-> 0, yMaximum |-> 4,
     width |-> 2, height |-> 2, raw |-> raw, nodata |-> nodata]

NoRasters == [harvest |-> MakeRaster(<<>>, NaN)]

RasterInputs ==
    {[harvest |-> MakeRaster(h, 255),
      agb |-> MakeRaster(a, 65535),
      prob |-> MakeRaster(q, NaN)] :
        h \in {<< <<1, 1>>, <<1, 1>> >>, << <<1, 0>>, <<255, 1>> >>},
        a \in {<< <<5, 6>>, <<7, 8>> >>, << <<5, 65535>>, <<7, 8>> >>},
        q \in {<< <<50, 60>>, <<70, 80>> >>, << <<50, 60>>, <<70, NaN>> >>}}

---------------------------------------------------------------------------
(* The sampler as a state machine: one call on inputs drawn at Init *)

ScriptIdle ==
    /\ script = "none" /\ pc = "exit"
    /\ project = [layers |-> {}, active |-> "none"]
    /\ numpy = FALSE /\ rasters = NoRasters /\ features = <<>> /\ idx = 0
    /\ stats = None /\ results = <<>> /\ pixels = 0
    /\ file = AbsentFile /\ file0 = AbsentFile /\ log = <<>> /\ iofail = FALSE

MetricsIdle == geom = NullBox /\ mpc = "idle" /\ mres = None

SamplerInit ==
    /\ ScriptIdle
    /\ MetricsIdle
    /\ spc = "call"
    /\ sres = None
    /\ slocals = NoLocals
    /\ \E in \in SamplerInputs : grid = in[1] /\ poly = in[2]

SamplerCall ==
    /\ spc = "call"
    /\ spc' = "done"
    /\ sres' = extract_raster_values_in_polygon(grid, poly)
    /\ slocals' = IF grid.broken THEN NoLocals ELSE ScanResult(grid, poly)
    /\ UNCHANGED <<grid, poly, scriptVars, metricsVars>>

SpecSampler == SamplerInit /\ [][SamplerCall]_vars

---------------------------------------------------------------------------
(* The three scripts as a state machine: one run of one script *)

ScriptInit ==
    /\ MetricsIdle
    /\ grid = BiomassRaster /\ poly = <<>> /\ spc = "idle"
    /\ sres = None /\ slocals = NoLocals
    /\ pc = "start" /\ idx = 0 /\ stats = None /\ results = <<>> /\ pixels = 0
    /\ log = <<>> /\ iofail = FALSE
    /\ file0 \in {AbsentFile, StaleFile}
    /\ file = file0
    /\ \/ /\ script = "biomass"
          /\ project \in [layers : SUBSET {"Vectorized", "AGB_Masked"}, active : {"none"}]
          /\ features \in FeatureLists(BiomassFeatureKinds)
          /\ numpy = TRUE /\ rasters = NoRasters
       \/ /\ script = "shape"
          /\ project \in [layers : {{}}, active : {"none", "raster", "vector"}]
          /\ features \in FeatureLists(ShapeFeatureKinds)
          /\ numpy = TRUE /\ rasters = NoRasters
       \/ /\ script = "prob"
          /\ project \in [layers : SUBSET {"AGB_Masked", "Harvest_10m", "harvest_prob_10m"},
                          active : {"none"}]
          /\ features = <<>>
          /\ numpy \in BOOLEAN
          /\ rasters \in RasterInputs

Next ==
    \/ BiomassLoad \/ BiomassFeature \/ BiomassWrite
    \/ ShapeStart \/ ShapeFeature \/ ShapeFinish \/ ShapeMainEnd
    \/ ProbStart \/ ProbExtract \/ ProbWrite \/ ProbMainEnd

Spec == ScriptInit /\ [][Next]_vars

---------------------------------------------------------------------------
(* The shape functions as a state machine: one call of one of the two       *)
(* functions on a geometry drawn at Init                                    *)

\* the eight directions of the first edge of a box: along the axes and the diagonals
Directions ==
    {<<1, 0>>, <<1, 1>>, <<0, 1>>, <<-1, 1>>, <<-1, 0>>, <<-1, -1>>, <<0, -1>>, <<1, -1>>}

\* the direction a quarter turn from d, counter-clockwise or clockwise
Perp(d, ccw) == IF ccw THEN <<-d[2], d[1]>> ELSE <<d[2], -d[1]>>

\* the closed ring of a rectangle with a first edge of m steps along d and a second
\* edge of n steps along the perpendicular, its third corner displaced by e: the
\* corners of a rotated rectangle are computed in floating point, and the lengths
\* of two opposite sides need not round alike
RectangleRing(d, m, n, ccw, e) ==
    LET q == Perp(d, ccw)
    IN  << <<0, 0>>,
           <<m * d[1], m * d[2]>>,
           <<m * d[1] + n * q[1] + e[1], m * d[2] + n * q[2] + e[2]>>,
           <<n * q[1], n * q[2]>>,
           <<0, 0>> >>

\* the displacements of a corner
CornerErrors == {-1, 0, 1} \X {-1, 0, 1}

\* only a box whose sides are longer than twice the displacement has a corner
\* displaced: the displaced ring is still a ring of four distinct corners
CornerErrorsOf(m, n) == IF m > 2 /\ n > 2 THEN CornerErrors ELSE {<<0, 0>>}

OrientedBoxes ==
    UNION {{[kind |-> "polygon", vertices |-> RectangleRing(d, m, n, ccw, e)] :
                d \in Directions, ccw \in BOOLEAN, e \in CornerErrorsOf(m, n)} :
            m \in 0..MaxSide, n \in 0..MaxSide}
    \cup {NullBox,
          [kind |-> "raises", vertices |-> <<>>],
          [kind |-> "polygon", vertices |-> << <<0, 0>>, <<3, 0>>, <<0, 0>> >>]}

MetricsAreas == {0, 1, 2, 999, 1000, 2500}

MetricsPerimeters == {0, 4, 200}

MetricsInputs ==
    {[geometry |-> "polygon", area_m2 |-> 2500, perimeter_m |-> 200, raises |-> FALSE,
      box |-> b] : b \in OrientedBoxes}
    \cup
    [geometry : {"polygon"}, area_m2 : MetricsAreas, perimeter_m : MetricsPerimeters,
     raises : BOOLEAN, box : {BoxOf(4, 2), NullBox}]

MetricsInit ==
    /\ ScriptIdle
    /\ grid = BiomassRaster /\ poly = <<>> /\ spc = "idle"
    /\ sres = None /\ slocals = NoLocals
    /\ geom \in MetricsInputs
    /\ mpc = "call"
    /\ mres = None

\* a call of calculate_elongation_and_orientation(geom)
ElongationCall ==
    /\ mpc = "call"
    /\ mpc' = "elongated"
    /\ mres' = calculate_elongation_and_orientation(geom.box)
    /\ UNCHANGED <<geom, samplerVars, scriptVars>>

\* a call of calculate_feature_metrics(feature, geom)
MetricsCall ==
    /\ mpc = "call"
    /\ mpc' = "measured"
    /\ mres' = calculate_feature_metrics(geom, 1)
    /\ UNCHANGED <<geom, samplerVars, scriptVars>>

MetricsNext == ElongationCall \/ MetricsCall

SpecMetrics == MetricsInit /\ [][MetricsNext]_vars

---------------------------------------------------------------------------
(* Properties of the sampler *)

SamplerDone == spc = "done"

Returned == SamplerDone /\ ~sres.none

\* the stored cell (row, col), read straight from the raster
CellAt(g, row, col) == g.cells[row + 1][col + 1]

\* the cells of an index range in row-major order
RangeCells(R) ==
    LET nc == R.max_col - R.min_col + 1
        nr == R.max_row - R.min_row + 1
    IN  IF nc <= 0 \/ nr <= 0 THEN <<>>
        ELSE [k \in 1..(nr * nc) |->
                <<R.min_row + ((k - 1) \div nc), R.min_col + ((k - 1) % nc)>>]

CenterInside(g, p, cell) == contains(p, CenterX(g, cell[2]), CenterY(g, cell[1]))

Qualifies(cell) ==
    /\ CenterInside(grid, poly, cell)
    /\ CellAt(grid, cell[1], cell[2]).success
    /\ CellAt(grid, cell[1], cell[2]).value # NaN
    /\ CellAt(grid, cell[1], cell[2]).value < 65530

\* the values the sampler is to collect, in row-major order
ExpectedValues ==
    LET sel == SelectSeq(RangeCells(slocals.range), Qualifies)
    IN  [k \in 1..Len(sel) |-> CellAt(grid, sel[k][1], sel[k][2]).value]

\* C1: on the example grid (origin (0,100), 10 x 10 pixels of size 10, all 5 but
\* cell (0,0) = 65535) with the full bounding box as polygon, the sampler returns
\* pixel_count = 99 and coverage_pct = 99.0, and the values' mean is 5.
C1_ExampleScenario ==
    (SamplerDone /\ grid = ExampleGrid("corner") /\ poly = FullBoxPolygon) =>
        /\ ~sres.none
        /\ sres.pixel_count = 99
        /\ sres.coverage_pct.num = 99 * sres.coverage_pct.den
        /\ SumSeq(sres.values) = 5 * Len(sres.values)

C1_Witness ==
    /\ Returned
    /\ grid = ExampleGrid("corner")
    /\ poly = FullBoxPolygon
    /\ slocals.total_pixels = 100

\* C2: whenever a result is returned, coverage_pct = 100 * (valid values) / (cells
\* of the clamped index range), every cell of the range counted.
C2_CoverageDenominator ==
    Returned =>
        LET R == slocals.range
            n == (R.max_row - R.min_row + 1) * (R.max_col - R.min_col + 1)
        IN  /\ n > 0
            /\ sres.coverage_pct.num * n
                   = 100 * Len(sres.values) * sres.coverage_pct.den

\* a returned result whose range holds a cell outside the polygon and a no-data cell
\* inside it
C2_Witness ==
    /\ Returned
    /\ \E k \in DOMAIN RangeCells(slocals.range) :
            ~CenterInside(grid, poly, RangeCells(slocals.range)[k])
    /\ \E k \in DOMAIN RangeCells(slocals.range) :
            LET cell == RangeCells(slocals.range)[k]
            IN  /\ CenterInside(grid, poly, cell)
                /\ CellAt(grid, cell[1], cell[2]).value >= 65530
    /\ sres.coverage_pct.num < 100 * sres.coverage_pct.den

\* C3: the returned values are exactly the values of the cells of the clamped range
\* whose centre is inside the polygon, whose sample succeeded and whose value is
\* neither NaN nor >= 65530; when nothing is returned there was no such cell.
C3_ExactValues ==
    SamplerDone =>
        IF sres.none
        THEN grid.broken \/ ExpectedValues = <<>>
        ELSE /\ sres.values = ExpectedValues
             /\ \A i \in DOMAIN sres.values :
                    sres.values[i] # NaN /\ sres.values[i] < 65530

\* a returned result that left out a no-data cell inside the polygon, a failed or NaN
\* sample inside it, and a valid cell outside it
C3_Witness ==
    /\ Returned
    /\ \E k \in DOMAIN RangeCells(slocals.range) :
            LET cell == RangeCells(slocals.range)[k]
            IN  /\ ~CenterInside(grid, poly, cell)
                /\ IsValid(CellAt(grid, cell[1], cell[2]))
    /\ \E k \in DOMAIN RangeCells(slocals.range) :
            LET cell == RangeCells(slocals.range)[k]
            IN  /\ CenterInside(grid, poly, cell)
                /\ CellAt(grid, cell[1], cell[2]).value \in {65530, 65534}
    /\ \E k \in DOMAIN RangeCells(slocals.range) :
            LET cell == RangeCells(slocals.range)[k]
            IN  /\ CenterInside(grid, poly, cell)
                /\ CellAt(grid, cell[1], cell[2]).value = NaN

\* C4: the index range never leaves out a cell of the grid whose centre is inside
\* the polygon.
C4_RangeKeepsInsideCells ==
    (SamplerDone /\ ~grid.broken) =>
        \A row \in 0..(grid.height - 1), col \in 0..(grid.width - 1) :
            contains(poly, CenterX(grid, col), CenterY(grid, row)) =>
                /\ slocals.range.min_row <= row /\ row <= slocals.range.max_row
                /\ slocals.range.min_col <= col /\ col <= slocals.range.max_col

\* the range left out some cell of the grid, and kept a cell whose centre is inside
C4_Witness ==
    /\ SamplerDone /\ ~grid.broken
    /\ Len(RangeCells(slocals.range)) < grid.width * grid.height
    /\ \E k \in DOMAIN RangeCells(slocals.range) :
            CenterInside(grid, poly, RangeCells(slocals.range)[k])

\* the polygon's bounding box lies entirely outside the grid's extent
BoxOutside(g, p) ==
    LET bbox == boundingBox(p)
    IN  \/ bbox.xMaximum < g.xMinimum
        \/ bbox.xMinimum > g.xMaximum
        \/ bbox.yMaximum < g.yMinimum
        \/ bbox.yMinimum > g.yMaximum

\* C5: a bounding box entirely outside the extent, at any distance, gives an empty
\* index range, total_pixels = 0 and the empty result.
C5_OutsideExaminesNothing ==
    (SamplerDone /\ ~grid.broken /\ BoxOutside(grid, poly)) =>
        /\ RangeCells(slocals.range) = <<>>
        /\ slocals.total_pixels = 0
        /\ sres.none

---------------------------------------------------------------------------
(* Properties of the scripts' runs *)

\* the cells of the whole grid g whose centre is inside polygon p
InsideCells(g, p) ==
    {c \in (0..(g.height - 1)) \X (0..(g.width - 1)) :
        contains(p, CenterX(g, c[2]), CenterY(g, c[1]))}

HoldsData(g, c) ==
    /\ CellAt(g, c[1], c[2]).success
    /\ CellAt(g, c[1], c[2]).value # NaN
    /\ CellAt(g, c[1], c[2]).value < 65530

NoCellInside(p) == InsideCells(grid, p) = {}

AllInsideNoData(p) ==
    /\ InsideCells(grid, p) # {}
    /\ \A c \in InsideCells(grid, p) : ~HoldsData(grid, c)

Warned(fid) ==
    \E i \in DOMAIN log : log[i] = Msg("warning", "no_valid_biomass_data", fid)

AtFeature == pc = "loop" /\ idx < Len(features)

\* C6: a feature for which the sampler collects nothing, because no cell is inside
\* the polygon or because every cell inside is no-data (or because sampling raised),
\* is handled alike: the sampler returns None, the warning is printed (and nothing
\* else when sampling did not raise), no row is appended, the loop goes on.
C6_EmptyHandledAlike ==
    [][(/\ script = "biomass" /\ AtFeature
        /\ features[idx + 1].fault # "geometry"
        /\ \/ features[idx + 1].fault = "sampling"
           \/ NoCellInside(features[idx + 1].poly)
           \/ AllInsideNoData(features[idx + 1].poly))
       => (/\ stats'.none
           /\ results' = results
           /\ idx' = idx + 1
           /\ pc' = "loop"
           /\ Len(log') > Len(log)
           /\ SubSeq(log', 1, Len(log)) = log
           /\ log'[Len(log')] = Msg("warning", "no_valid_biomass_data", idx + 1)
           /\ features[idx + 1].fault = "none" => Len(log') = Len(log) + 1)]_vars

\* both kinds of empty feature were warned about, and a later feature gave a row
C6_Witness ==
    /\ script = "biomass"
    /\ \E i \in 1..idx, j \in 1..idx :
        /\ features[i].fault = "none" /\ NoCellInside(features[i].poly)
        /\ features[j].fault = "none" /\ AllInsideNoData(features[j].poly)
        /\ Warned(i) /\ Warned(j)
        /\ \E k \in DOMAIN results :
              results[k].feature_id > i /\ results[k].feature_id > j

\* the processing of feature f raises: in the biomass script at the geometry or in
\* the sampler, in the shape script in calculate_feature_metrics
Raises(f) ==
    \/ script = "biomass" /\ f.fault # "none"
    \/ script = "shape" /\ f.geometry = "polygon" /\ f.area_m2 >= 1000 /\ f.raises

MissingLayer ==
    \/ script = "biomass" /\ ~({"Vectorized", "AGB_Masked"} \subseteq project.layers)
    \/ script = "shape" /\ project.active # "vector"
    \/ script = "prob"
          /\ ~({"AGB_Masked", "Harvest_10m", "harvest_prob_10m"} \subseteq project.layers)

NotFoundTexts ==
    {"harvest_layer_not_found", "biomass_layer_not_found", "please_select_layer",
     "agb_layer_not_found", "prob_layer_not_found", "layers_not_found"}

\* C8: with a required layer missing every script stops with a message about it
\* before any feature or pixel is processed, and the output file is left as it was.
C8_MissingLayerAborts ==
    MissingLayer =>
        /\ file = file0
        /\ idx = 0 /\ pixels = 0 /\ results = <<>> /\ stats = None
        /\ pc \in {"start", "raised", "returned", "exit"}
        /\ pc # "start" => \E i \in DOMAIN log : log[i].text \in NotFoundTexts

\* the biomass raster is missing, the layer has features, an old file exists
C8_Witness ==
    /\ script = "biomass" /\ pc = "raised"
    /\ "Vectorized" \in project.layers /\ "AGB_Masked" \notin project.layers
    /\ Len(features) > 0
    /\ file0 = StaleFile

\* the run has ended
Terminal ==
    \/ pc \in {"raised", "exit"}
    \/ script = "biomass" /\ pc = "returned"

\* C9: in every script a failure to create the directory or to write the file is
\* fatal: the run ends with an error, and no success or completion message is printed.
C9_WriteFailureIsFatal ==
    iofail =>
        /\ Terminal => pc = "raised"
        /\ \A i \in DOMAIN log : log[i].level # "success"

\* feature j of the biomass script is not skipped: nothing raises, and some cell
\* with its centre inside the polygon holds data
KeptBiomass(j) ==
    /\ features[j].fault = "none"
    /\ \E c \in InsideCells(grid, features[j].poly) : HoldsData(grid, c)

\* feature j of the shape script is not skipped
KeptShape(j) ==
    /\ features[j].geometry = "polygon"
    /\ features[j].area_m2 >= 1000
    /\ ~features[j].raises

\* the rows the first n features are to give, in the features' order
ExpectedBiomass(n) ==
    LET kept == SelectSeq([j \in 1..n |-> j], KeptBiomass)
    IN  [k \in 1..Len(kept) |->
            BiomassRow(kept[k],
                       extract_raster_values_in_polygon(grid, features[kept[k]].poly))]

ExpectedShape(n) ==
    LET kept == SelectSeq([j \in 1..n |-> j], KeptShape)
    IN  [k \in 1..Len(kept) |-> ShapeRow(kept[k], features[kept[k]])]

\* C10: while the loop runs the rows accumulated are those of the features taken so
\* far that were not skipped, one each, in the features' order; after a run that
\* completes the file is the header followed by those rows for all the features.
C10_OneRowPerFeatureInOrder ==
    /\ (script = "biomass" /\ pc = "loop") => results = ExpectedBiomass(idx)
    /\ (script = "biomass" /\ pc = "returned") =>
            file.lines = <<Header("biomass")>> \o ExpectedBiomass(Len(features))
    /\ (script = "shape" /\ pc = "loop") =>
            file.lines = <<Header("shape")>> \o ExpectedShape(idx)
    /\ (script = "shape" /\ pc \in {"returned", "exit"} /\ ~iofail /\ ~MissingLayer) =>
            file.lines = <<Header("shape")>> \o ExpectedShape(Len(features))

\* a completed run of the biomass script that skipped a feature and wrote two rows
C10_Witness ==
    /\ script = "biomass" /\ pc = "returned"
    /\ Len(features) = 3
    /\ Len(file.lines) = 3
    /\ file.lines[2].feature_id < file.lines[3].feature_id


---------------------------------------------------------------------------
(* Properties of the shape functions *)

Elongated == mpc = "elongated"

\* the rounded lengths of the sides of the box handed to the function
BoxLengths == UniqueLengths(geom.box.vertices)

\* the box is a closed ring of four sides
IsRing ==
    /\ geom.box.kind = "polygon"
    /\ Len(geom.box.vertices) = 5
    /\ geom.box.vertices[5] = geom.box.vertices[1]

\* an angle of [0, 180): a ray above the horizontal axis, or along it to the right
InHalfTurn(a) == a.dy > 0 \/ (a.dy = 0 /\ a.dx > 0)

\* C11: the orientation returned is in [0, 180), never negative and never 180,
\* whatever the direction in which the vertices of the box are listed.
C11_OrientationInHalfTurn ==
    Elongated => InHalfTurn(mres.orientation)

\* C12: for a box with two different side lengths (the shortest not rounding to 0)
\* the elongation returned is the longest rounded side over the shortest rounded
\* side, also when the four sides round to more than two values.
C12_ElongationLongestOverShortest ==
    (Elongated /\ IsRing /\ Cardinality(BoxLengths) >= 2 /\ SetMin(BoxLengths) > 0) =>
        mres.elongation_ratio.num * SetMin(BoxLengths)
            = SetMax(BoxLengths) * mres.elongation_ratio.den

\* the box is degenerate: fewer than 4 distinct vertices (so also a ring of one
\* point, and a rectangle with a side of length zero), or all its sides equal
Degenerate ==
    \/ geom.box.kind # "polygon"
    \/ Cardinality({geom.box.vertices[i] : i \in DOMAIN geom.box.vertices}) < 4
    \/ \A i, j \in 1..(Len(geom.box.vertices) - 1) :
           SquaredLength(geom.box.vertices, i) = SquaredLength(geom.box.vertices, j)

\* C13: for a degenerate box the function returns exactly elongation 1.0 and
\* orientation 0.0.
C13_DegenerateIsDefault ==
    (Elongated /\ Degenerate) => mres = DefaultElongation

Measured == mpc = "measured"

\* C14: for a polygon with area <= 1 or perimeter <= 0 calculate_feature_metrics
\* reports metrics whose fractal dimension index is 0, and raises nothing.
C14_FractalIndexGuarded ==
    (Measured /\ ~geom.raises /\ (geom.area_m2 <= 1 \/ geom.perimeter_m <= 0)) =>
        /\ ~mres.raised
        /\ mres.log = <<>>
        /\ Len(mres.rows) = 1
        /\ mres.rows[1].fractal_dimension_index.zero

---------------------------------------------------------------------------
(* Properties of harvest_prob_extract.py *)

\* the raw value v of raster r is valid: neither NaN nor the raster's no-data value
ValidValue(r, v) == v # NaN /\ v # r.nodata

\* the rows the extraction is to give: one row (x, y, AGB, probability) in row-major
\* order for each pixel whose mask is 1 and whose AGB and probability are valid
RECURSIVE ExpectedProbRows(_, _)
ExpectedProbRows(rs, k) ==
    IF k >= rs.harvest.width * rs.harvest.height THEN <<>>
    ELSE LET row == k \div rs.harvest.width
             col == k % rs.harvest.width
             h == rs.harvest.raw[row + 1][col + 1]
             a == rs.agb.raw[row + 1][col + 1]
             q == rs.prob.raw[row + 1][col + 1]
         IN  (IF h = 1 /\ ValidValue(rs.harvest, h) /\ ValidValue(rs.agb, a)
                 /\ ValidValue(rs.prob, q)
              THEN <<[kind |-> "row", x |-> CenterX(rs.harvest, col),
                      y |-> CenterY(rs.harvest, row), agb |-> a, prob |-> q]>>
              ELSE <<>>)
                 \o ExpectedProbRows(rs, k + 1)

\* C15: the bulk-array path and the per-pixel path give the same header and the
\* same rows for the same rasters: the rows of the pixels whose mask is 1 and whose
\* AGB and probability are valid.
C15_NumpyPathIsVariant ==
    (script = "prob" /\ pc = "write") =>
        /\ results = <<Header("prob")>> \o ExtractFrom(rasters, 0, ~numpy)
        /\ results = <<Header("prob")>> \o ExpectedProbRows(rasters, 0)

---------------------------------------------------------------------------
(* The results of the sampler *)

\* C16: a result the sampler returns has pixel_count = len(values) >= 1 and
\* 0 < coverage_pct <= 100; with pixel_count = 0 it returns None instead, so a
\* result never has pixel_count = 0, and total_pixels is never 0 at line 249.
C16_ResultNeverEmpty ==
    /\ Returned =>
          /\ sres.pixel_count = Len(sres.values)
          /\ sres.pixel_count >= 1
          /\ slocals.total_pixels >= sres.pixel_count
          /\ sres.coverage_pct.den = slocals.total_pixels
          /\ sres.coverage_pct.num > 0
          /\ sres.coverage_pct.num <= 100 * sres.coverage_pct.den
    /\ (SamplerDone /\ ~grid.broken /\ Len(slocals.valid_values) = 0) => sres.none

\* both ends are reached by some call: one valid value among several cells examined,
\* and every cell examined valid
C16_Witness ==
    /\ Returned
    /\ sres.pixel_count = 1
    /\ slocals.total_pixels > 1
    /\ grid = SmallGrid("mixed")

==========================================================================

